---- MODULE Spec2Model ----
(***************************************************************************)
(* Credential and token subsystem of the restaurant-review backend:        *)
(* the flat-file user store (local_storage.py), the registration, e-mail   *)
(* verification and login handlers (main.py) and the bearer-token codec    *)
(* (auth.py).                                                              *)
(*                                                                         *)
(* Time is counted in ticks, TicksPerSec ticks to the second, so that the  *)
(* truncation of datetimes to whole seconds done by the token codec is a   *)
(* real conversion.                                                        *)
(***************************************************************************)
EXTENDS Integers, Sequences, FiniteSets, TLC

\* ------------------------------------------------------------------ bounds
\* clock resolution: ticks to the second
TicksPerSec == 2
\* how many ways a signature segment may be re-spelled without changing the
\* bytes it decodes to
MaxExtra == 1

\* ------------------------------------------------------- program constants
SecPerMin == 60
DefaultExpireMinutes == 15
EnvDefaultExpireMinutes == 30

\* ---------------------------------------------------------- input domains
Usernames == {"alice", "bob"}
Emails == {"a@x.org", "b@x.org"}
Passwords == {"pw1", "pw2"}
Salts == {"s1", "s2"}
VerifTokens == {"tokA", "tokB"}
BogusToken == "bogus"
EnvMinutes == {-1, 0, EnvDefaultExpireMinutes}

\* Python's None for an optional string field
None == "<None>"

\* Python's None for an optional user record (a lookup that found nothing)
NoUser ==
    [id |-> 0, username |-> None, email |-> None,
     hashed_password |-> [salt |-> None, digest |-> <<>>],
     is_verified |-> 0, verification_token |-> None]

VARIABLES
    users,      \* contents of users.json: a list of user records
    now,        \* the system clock, in ticks
    minutes,    \* ACCESS_TOKEN_EXPIRE_MINUTES, read from the environment at start
    issued,     \* the last bearer token handed to a client: <<>> or <<record>>
    resp,       \* the response to the last request
    restaurants, \* contents of restaurants.json: a list of restaurant records
    reviews,    \* contents of reviews.json: a list of review records
    admins,     \* contents of admins.json: a list of [email |-> ...] records
    ADMINS,     \* the ADMINS environment variable, split at commas and stripped
    reqs        \* the register_user requests in flight: position and locals

vars == <<users, now, minutes, issued, resp, restaurants, reviews, admins,
          ADMINS, reqs>>

\* the stores and requests the credential handlers never touch
appVars == <<restaurants, reviews, admins, ADMINS, reqs>>

\* ------------------------------------------------------------ small helpers
SetMax(S) == CHOOSE m \in S : \A x \in S : x <= m

\* dict.update: the keys of upd overwrite those of r
DictUpdate(r, upd) ==
    [f \in DOMAIN r |-> IF f \in DOMAIN upd THEN upd[f] ELSE r[f]]

\* a loop that returns at its first match: the least index of I, 0 when the
\* loop falls through
FirstIndex(I) ==
    IF I = {} THEN 0 ELSE CHOOSE i \in I : \A j \in I : i <= j

\* ------------------------------------------------------------ password hash
\* bcrypt as a salted one-way derivation, injective on the passwords of the
\* model (all within its 72-byte input): the digest embeds its salt
Kdf(salt, password) == <<"bcrypt", salt, password>>

get_password_hash(password, salt) ==
    [salt |-> salt, digest |-> Kdf(salt, password)]

verify_password(plain_password, hashed_password) ==
    hashed_password.digest = Kdf(hashed_password.salt, plain_password)

\* ---------------------------------------------------------------- token codec
\* the process-wide signing secret, and a key of the attacker's own
SECRET_KEY == "SECRET_KEY"
AttackerKey == "attacker-key"

\* the keyed hash of the signing input (the encoded claims segment)
Hmac(signing_input, key) == <<"hmac", key, signing_input>>

\* base64url text of a byte string: the canonical spelling has extra = 0.
\* Decoding (padding added, then base64.urlsafe_b64decode) keeps only the
\* bytes: the unused low bits of the last character and characters outside
\* the alphabet are dropped, so several texts decode to the same bytes;
\* extra numbers the spellings of one byte string.
B64UrlEncode(bytes) == [bytes |-> bytes, extra |-> 0]

B64UrlDecode(text) == text.bytes

\* timedelta(minutes=m), in ticks
Timedelta(m) == m * SecPerMin * TicksPerSec

\* timegm(dt.utctimetuple()): a datetime truncated to whole seconds
Timegm(ticks) == ticks \div TicksPerSec

\* jwt.encode: exp becomes whole seconds, the claims are signed
jwt_encode(sub, expire, key) ==
    LET claims == [sub |-> sub, exp |-> Timegm(expire)]
    IN  [claims |-> claims, sig |-> B64UrlEncode(Hmac(claims, key))]

\* faulty variant: without an expires_delta the token expires at once
create_access_token_no_default(sub, expires_delta, utcnow) ==
    LET expire == IF expires_delta # <<>> /\ expires_delta[1] # 0
                  THEN utcnow + expires_delta[1]
                  ELSE utcnow
    IN  jwt_encode(sub, expire, SECRET_KEY)

\* expires_delta is <<>> (None) or <<ticks>>; a zero timedelta is falsy
create_access_token(sub, expires_delta, utcnow) ==
    LET expire == IF expires_delta # <<>> /\ expires_delta[1] # 0
                  THEN utcnow + expires_delta[1]
                  ELSE utcnow + Timedelta(DefaultExpireMinutes)
    IN  jwt_encode(sub, expire, SECRET_KEY)

\* faulty variant: the signature is not verified
jwt_decode_unverified(token, key, utcnow) ==
    IF token.claims.exp < Timegm(utcnow)
    THEN [ok |-> FALSE, error |-> "ExpiredSignatureError", payload |-> token.claims]
    ELSE [ok |-> TRUE, error |-> None, payload |-> token.claims]

\* jwt.decode (python-jose): the signature segment is base64url-decoded and
\* compared with the keyed hash of the signing input; then the exp claim is
\* checked against the clock in whole seconds, and the token is expired only
\* when exp < now (it is still valid during the second exp names)
jwt_decode(token, key, utcnow) ==
    IF B64UrlDecode(token.sig) # Hmac(token.claims, key)
    THEN [ok |-> FALSE, error |-> "JWTError", payload |-> token.claims]
    ELSE IF token.claims.exp < Timegm(utcnow)
    THEN [ok |-> FALSE, error |-> "ExpiredSignatureError", payload |-> token.claims]
    ELSE [ok |-> TRUE, error |-> None, payload |-> token.claims]

\* decode_token, imported by main.py: split, recompute the signature over the
\* claims part and compare it to the supplied one, then fail unless the expiry
\* is strictly after now
decode_token(token, utcnow) ==
    IF token.sig # B64UrlEncode(Hmac(token.claims, SECRET_KEY))
    THEN [ok |-> FALSE, error |-> "BadSignature", payload |-> token.claims]
    ELSE IF ~(token.claims.exp * TicksPerSec > utcnow)
    THEN [ok |-> FALSE, error |-> "Expired", payload |-> token.claims]
    ELSE [ok |-> TRUE, error |-> None, payload |-> token.claims]

\* ---------------------------------------------------------------- user store
get_user_by_username(us, username) ==
    LET i == FirstIndex({k \in DOMAIN us : us[k].username = username})
    IN  IF i = 0 THEN NoUser ELSE us[i]

\* faulty variant: the lookup by email finds nothing
get_user_by_email_none(us, email) == NoUser

get_user_by_email(us, email) ==
    LET i == FirstIndex({k \in DOMAIN us : us[k].email = email})
    IN  IF i = 0 THEN NoUser ELSE us[i]

\* faulty variant: the rewrite of users.json keeps only the new record
create_user_dropping(us, user_data) ==
    LET new_id == IF us = <<>> THEN 1
                  ELSE SetMax({us[i].id : i \in DOMAIN us}) + 1
    IN  <<[user_data EXCEPT !.id = new_id]>>

create_user(us, user_data) ==
    LET new_id == IF us = <<>> THEN 1
                  ELSE SetMax({us[i].id : i \in DOMAIN us}) + 1
    IN  Append(us, [user_data EXCEPT !.id = new_id])

\* faulty variant: the update is applied to every record, the id unchecked
update_user_every_record(us, user_id, updated_data) ==
    [i \in DOMAIN us |-> DictUpdate(us[i], updated_data)]

update_user(us, user_id, updated_data) ==
    LET i == FirstIndex({k \in DOMAIN us : us[k].id = user_id})
    IN  IF i = 0 THEN us
        ELSE [us EXCEPT ![i] = DictUpdate(us[i], updated_data)]

\* faulty variant: the flag is set and the token left in place
VerifiedFieldsKeepToken == [is_verified |-> 1]

\* the fields verify_email writes
VerifiedFields == [is_verified |-> 1, verification_token |-> None]

\* ------------------------------------------- restaurant and review store
\* Python's None for an optional restaurant record
NoRestaurant == [id |-> 0, name |-> None]

get_restaurant_by_id(rs, restaurant_id) ==
    LET i == FirstIndex({k \in DOMAIN rs : rs[k].id = restaurant_id})
    IN  IF i = 0 THEN NoRestaurant ELSE rs[i]

create_restaurant(rs, restaurant_data) ==
    LET new_id == IF rs = <<>> THEN 1
                  ELSE SetMax({rs[i].id : i \in DOMAIN rs}) + 1
    IN  Append(rs, [restaurant_data EXCEPT !.id = new_id])

\* created_at is the clock value of the call
create_review(rvs, review_data, created_at) ==
    LET new_id == IF rvs = <<>> THEN 1
                  ELSE SetMax({rvs[i].id : i \in DOMAIN rvs}) + 1
    IN  Append(rvs, [review_data EXCEPT !.id = new_id,
                                        !.created_at = created_at])

\* --------------------------------------------------------------- admin store
DefaultAdminEmail == "admin@example.com"

is_admin(adm, email) == \E i \in DOMAIN adm : adm[i].email = email

\* the list add_admin leaves in admins.json, and what it returns
add_admin(adm, email) ==
    IF is_admin(adm, email) THEN [success |-> FALSE, admins |-> adm]
    ELSE [success |-> TRUE, admins |-> Append(adm, [email |-> email])]

\* the list remove_admin leaves in admins.json, and what it returns
remove_admin(adm, email) ==
    LET Keep(admin) == admin.email # email
        kept == SelectSeq(adm, Keep)
    IN  IF Len(kept) < Len(adm) THEN [success |-> TRUE, admins |-> kept]
        ELSE [success |-> FALSE, admins |-> adm]

\* the loop of init_first_admin over the entries of ADMINS: an entry that is
\* not blank and not yet listed is appended
RECURSIVE AddEnvAdmins(_, _)
AddEnvAdmins(adm, email_list) ==
    IF email_list = <<>> THEN adm
    ELSE LET email == Head(email_list)
         IN  AddEnvAdmins(IF email # "" /\ ~is_admin(adm, email)
                          THEN Append(adm, [email |-> email]) ELSE adm,
                          Tail(email_list))

\* faulty variant: the default admin is appended whenever it is not listed
init_first_admin_default_always(adm, email_list) ==
    LET listed == AddEnvAdmins(adm, email_list)
    IN  IF ~is_admin(listed, DefaultAdminEmail)
        THEN Append(listed, [email |-> DefaultAdminEmail]) ELSE listed

\* the list init_first_admin writes to admins.json
init_first_admin(adm, email_list) ==
    LET listed == AddEnvAdmins(adm, email_list)
    IN  IF listed = <<>> THEN <<[email |-> DefaultAdminEmail]>> ELSE listed

\* the state of the other stores when the modules have been imported with no
\* ADMINS in the environment and no request is in flight
InitApp ==
    /\ restaurants = <<>>
    /\ reviews = <<>>
    /\ ADMINS = <<>>
    /\ admins = init_first_admin(<<>>, ADMINS)
    /\ reqs = <<>>

\* ------------------------------------------------------------------ handlers
\* POST /register
register_user(username, email, password, salt, verification_token, mail_ok) ==
    /\ IF get_user_by_username(users, username) # NoUser
       THEN /\ resp' = [op |-> "register", status |-> 400,
                        detail |-> "Username already registered"]
            /\ UNCHANGED users
       ELSE IF get_user_by_email(users, email) # NoUser
       THEN /\ resp' = [op |-> "register", status |-> 400,
                        detail |-> "Email already registered"]
            /\ UNCHANGED users
       ELSE /\ users' = create_user(users,
                   [id |-> 0, username |-> username, email |-> email,
                    hashed_password |-> get_password_hash(password, salt),
                    is_verified |-> 0,
                    verification_token |-> verification_token])
            /\ resp' = IF mail_ok
                       THEN [op |-> "register", status |-> 200,
                             detail |-> "User registered successfully"]
                       ELSE [op |-> "register", status |-> 500,
                             detail |-> "Internal Server Error"]
    /\ UNCHANGED <<now, minutes, issued, appVars>>

\* GET /verify/{token}
verify_email(token) ==
    /\ LET i == FirstIndex({k \in DOMAIN users :
                                 users[k].verification_token = token})
       IN  IF i # 0
           THEN /\ users' = update_user(users, users[i].id, VerifiedFields)
                /\ resp' = [op |-> "verify", status |-> 200, token |-> token,
                            detail |-> "Email verified successfully"]
           ELSE /\ resp' = [op |-> "verify", status |-> 404, token |-> token,
                            detail |-> "Invalid verification token"]
                /\ UNCHANGED users
    /\ UNCHANGED <<now, minutes, issued, appVars>>

\* faulty variant: the password is not checked
authenticate_user_any_password(us, username, password) ==
    get_user_by_username(us, username)

\* main.py authenticate_user
authenticate_user(us, username, password) ==
    LET user == get_user_by_username(us, username)
    IN  IF user = NoUser THEN NoUser
        ELSE IF ~verify_password(password, user.hashed_password) THEN NoUser
        ELSE user

\* the 401 of /token: no access token is returned
LoginFailure ==
    [op |-> "login", status |-> 401,
     detail |-> "Incorrect username or password", access_token |-> <<>>]

\* POST /token
login(username, password) ==
    /\ LET user == authenticate_user(users, username, password)
       IN  IF user = NoUser
           THEN /\ resp' = LoginFailure
                /\ UNCHANGED issued
           ELSE LET access_token_expires == <<Timedelta(minutes)>>
                    access_token == create_access_token(user.username,
                                        access_token_expires, now)
                IN  /\ resp' = [op |-> "login", status |-> 200,
                                detail |-> "bearer",
                                access_token |-> <<access_token>>]
                    /\ issued' = <<[token |-> access_token, at |-> now,
                                    sub |-> user.username,
                                    expires_delta |-> access_token_expires]>>
    /\ UNCHANGED <<users, now, minutes, appVars>>

\* the 401 both get_current_user handlers raise; token and at record the
\* request it answers and the clock value it was handled at
CredentialsException(op, token) ==
    [op |-> op, status |-> 401, detail |-> "Could not validate credentials",
     user |-> NoUser, token |-> token, at |-> now]

\* auth.py get_current_user
auth_get_current_user(token) ==
    /\ LET d == jwt_decode(token, SECRET_KEY, now)
       IN  IF ~d.ok THEN resp' = CredentialsException("auth_get_current_user", token)
           ELSE IF d.payload.sub = None
           THEN resp' = CredentialsException("auth_get_current_user", token)
           ELSE LET user == get_user_by_username(users, d.payload.sub)
                IN  IF user = NoUser
                    THEN resp' = CredentialsException("auth_get_current_user", token)
                    ELSE resp' = [op |-> "auth_get_current_user", status |-> 200,
                                  detail |-> "ok", user |-> user, token |-> token,
                                  at |-> now]
    /\ UNCHANGED <<users, now, minutes, issued, appVars>>

\* faulty variant: the result of the user lookup is returned unchecked
main_get_current_user_unchecked_lookup(token) ==
    /\ LET d == decode_token(token, now)
       IN  IF ~d.ok THEN resp' = CredentialsException("main_get_current_user", token)
           ELSE IF d.payload.sub = None
           THEN resp' = CredentialsException("main_get_current_user", token)
           ELSE resp' = [op |-> "main_get_current_user", status |-> 200,
                         detail |-> "ok",
                         user |-> get_user_by_username(users, d.payload.sub),
                         token |-> token, at |-> now]
    /\ UNCHANGED <<users, now, minutes, issued, appVars>>

\* main.py get_current_user
main_get_current_user(token) ==
    /\ LET d == decode_token(token, now)
       IN  IF ~d.ok THEN resp' = CredentialsException("main_get_current_user", token)
           ELSE IF d.payload.sub = None
           THEN resp' = CredentialsException("main_get_current_user", token)
           ELSE LET user == get_user_by_username(users, d.payload.sub)
                IN  IF user = NoUser
                    THEN resp' = CredentialsException("main_get_current_user", token)
                    ELSE resp' = [op |-> "main_get_current_user", status |-> 200,
                                  detail |-> "ok", user |-> user, token |-> token,
                                  at |-> now]
    /\ UNCHANGED <<users, now, minutes, issued, appVars>>

\* a direct call of create_access_token, at registration or by any other caller
issue_token(sub, expires_delta) ==
    /\ LET access_token == create_access_token(sub, expires_delta, now)
       IN  /\ issued' = <<[token |-> access_token, at |-> now, sub |-> sub,
                           expires_delta |-> expires_delta]>>
           /\ resp' = [op |-> "create_access_token", status |-> 200,
                       detail |-> "bearer", access_token |-> <<access_token>>]
    /\ UNCHANGED <<users, now, minutes, appVars>>

Register ==
    \E username \in Usernames, email \in Emails, password \in Passwords,
       salt \in Salts, verification_token \in VerifTokens, mail_ok \in BOOLEAN :
        register_user(username, email, password, salt, verification_token, mail_ok)

VerifyEmail ==
    \E token \in VerifTokens \cup {BogusToken} : verify_email(token)

Login ==
    \E username \in Usernames, password \in Passwords : login(username, password)

Init ==
    /\ users = <<>>
    /\ now = 0
    /\ minutes = EnvDefaultExpireMinutes
    /\ issued = <<>>
    /\ resp = [op |-> "none", status |-> 0]
    /\ InitApp

Next ==
    \/ Register
    \/ VerifyEmail
    \/ Login

Spec == Init /\ [][Next]_vars

\* ------------------------------------------------------------------- claims
\* the stored records, as a set
Records(us) == {us[i] : i \in DOMAIN us}

\* C1: once a user record's is_verified is 1, every later state still holds
\* a record with that id whose is_verified is 1.
C1_VerifiedNeverReverts ==
    [][\A u \in Records(users) :
          u.is_verified = 1 =>
              \E v \in Records(users') : v.id = u.id /\ v.is_verified = 1]_vars

\* a registration was stored after the first record had been verified
C1_Witness ==
    /\ Len(users) = 2
    /\ users[1].is_verified = 1
    /\ resp.op = "register" /\ resp.status = 200

\* C2: a second verify_email call with the token the previous call consumed
\* succeeds and leaves the user store unchanged.
C2_SecondVerifySucceeds ==
    [][(/\ resp.op = "verify" /\ resp.status = 200
        /\ verify_email(resp.token))
       => (resp'.status = 200 /\ users' = users)]_vars

\* C3: every record whose is_verified flag is set has no verification_token.
C3_VerifiedHasNoToken ==
    \A u \in Records(users) :
        u.is_verified # 0 => u.verification_token = None

\* a record has been verified by verify_email
C3_Witness ==
    /\ resp.op = "verify" /\ resp.status = 200
    /\ \E u \in Records(users) : u.is_verified = 1

\* C4: no two user records hold the same non-null verification_token.
C4_TokensUnique ==
    \A i, j \in DOMAIN users :
        (i # j /\ users[i].verification_token # None)
            => users[i].verification_token # users[j].verification_token

\* C5: a login request for (username, password) gets the stored record's
\* token exactly when a record with that username holds the hash of that
\* password; every other request gets one and the same 401 and no token.
C5_AuthenticateExact ==
    [][\A username \in Usernames, password \in Passwords :
        login(username, password) =>
            LET r == authenticate_user(users, username, password)
                stored == {u \in Records(users) :
                              /\ u.username = username
                              /\ u.hashed_password =
                                   get_password_hash(password, u.hashed_password.salt)}
            IN  IF stored # {}
                THEN /\ r \in stored
                     /\ resp'.status = 200
                     /\ Len(resp'.access_token) = 1
                     /\ resp'.access_token[1].claims.sub = username
                ELSE /\ r = NoUser
                     /\ resp' = LoginFailure
                     /\ issued' = issued]_vars

\* both usernames are stored, a login failed (wrong password) and an earlier
\* login had succeeded
C5_Witness ==
    /\ Len(users) = 2
    /\ resp = LoginFailure
    /\ issued # <<>>

\* the fields of a user record that identify it and hold its credential
IdentityFields == {"id", "username", "email", "hashed_password"}

\* C11: every stored record stays in place with its id, username, email and
\* hashed_password under every request; a record changes only in a successful
\* verify_email step, only the first record holding the presented token
\* does, and only in its is_verified and verification_token; no record is
\* added except by a registration.
C11_RecordFrame ==
    [][/\ Len(users') >= Len(users)
       /\ \A i \in DOMAIN users :
            /\ \A f \in IdentityFields : users'[i][f] = users[i][f]
            /\ users'[i] # users[i] =>
                 /\ resp'.op = "verify" /\ resp'.status = 200
                 /\ users[i].verification_token = resp'.token
                 /\ \A j \in DOMAIN users :
                        users[j].verification_token = resp'.token => i <= j
                 /\ users'[i] = [users[i] EXCEPT !.is_verified = 1,
                                                 !.verification_token = None]
       /\ Len(users') > Len(users) =>
            /\ resp'.op = "register"
            /\ Len(users') = Len(users) + 1]_vars

\* the second of two records was verified by its token while the first still
\* waits with another
C11_Witness ==
    /\ Len(users) = 2
    /\ resp.op = "verify" /\ resp.status = 200
    /\ users[2].is_verified = 1
    /\ users[1].is_verified = 0
    /\ users[1].verification_token \notin {None, resp.token}

\* C12: no two stored records share a username and no two share an email; a
\* registration answered 400 leaves the user store as it was, and a
\* registration that stores a record stores one whose username and email
\* were not stored before.
C12_SubjectsUnique ==
    [][/\ \A i, j \in DOMAIN users' :
            i # j => /\ users'[i].username # users'[j].username
                     /\ users'[i].email # users'[j].email
       /\ (resp'.op = "register" /\ resp'.status = 400) => users' = users
       /\ (resp'.op = "register" /\ users' # users) =>
            /\ resp'.status # 400
            /\ \A u \in Records(users) :
                   /\ u.username # users'[Len(users')].username
                   /\ u.email # users'[Len(users')].email]_vars

\* a registration reusing a stored email under a new username was refused
\* while one record was stored
C12_Witness ==
    /\ Len(users) = 1
    /\ resp.op = "register" /\ resp.status = 400
    /\ resp.detail = "Email already registered"

\* ------------------------------------------------ the token specification
\* subjects a token may name: stored users, a user that is not stored, none
Subjects == Usernames \cup {None}

\* the expires_delta values callers pass: none, negative, zero, below a
\* second, one second
Deltas ==
    {<<>>, <<-TicksPerSec>>, <<0>>, <<1>>, <<TicksPerSec>>}

\* tokens are issued during the first second and presented until Horizon
IssueUntil == TicksPerSec - 1
Horizon == 2 * TicksPerSec + 1

\* what a client can present, knowing the last issued token and no secret:
\* its claims or altered ones, under its signature bytes or bytes made with a
\* key of the client's own, in any spelling
Presentable ==
    IF issued = <<>> THEN {}
    ELSE LET t == issued[1].token
             claimsets == {t.claims,
                           [t.claims EXCEPT !.sub = "alice"],
                           [t.claims EXCEPT !.exp = @ + SecPerMin]}
         IN  UNION {{[claims |-> c, sig |-> [bytes |-> b, extra |-> x]] :
                        b \in {t.sig.bytes, Hmac(c, AttackerKey)},
                        x \in 0..MaxExtra} : c \in claimsets}

Tick ==
    /\ now < Horizon
    /\ now' = now + 1
    /\ UNCHANGED <<users, minutes, issued, resp, appVars>>

IssueToken ==
    /\ now <= IssueUntil
    /\ \E sub \in Subjects, expires_delta \in Deltas : issue_token(sub, expires_delta)

LoginTok ==
    /\ now <= IssueUntil
    /\ Login

AuthGetCurrentUser ==
    \E token \in Presentable : auth_get_current_user(token)

MainGetCurrentUser ==
    \E token \in Presentable : main_get_current_user(token)

\* --------------------------------------------------------- claims on tokens
\* the signature segment decodes to the keyed hash of the claims segment
SignedBySecret(token) ==
    B64UrlDecode(token.sig) = Hmac(token.claims, SECRET_KEY)

\* the last response is a get_current_user response
Getters == {"auth_get_current_user", "main_get_current_user"}

\* C6: an issued token whose subject is a stored user is rejected by both
\* get_current_user handlers at every clock value at or after its expiry.
C6_ExpiredRejected ==
    (/\ resp.op \in Getters
     /\ resp.token = issued[1].token
     /\ get_user_by_username(users, resp.token.claims.sub) # NoUser
     /\ resp.token.claims.exp * TicksPerSec <= resp.at)
    => resp.status = 401

\* C7: every issued token carries an exp strictly later than the clock value
\* at its issuance.
C7_ExpInFuture ==
    issued # <<>> =>
        issued[1].token.claims.exp * TicksPerSec > issued[1].at

\* C7 amended: so does every token issued with no expires_delta or with one
\* of at least a second, login's among them when ACCESS_TOKEN_EXPIRE_MINUTES
\* is at least 1.
C7_ExpInFutureFromOneSecond ==
    (/\ issued # <<>>
     /\ \/ issued[1].expires_delta = <<>>
        \/ issued[1].expires_delta[1] >= TicksPerSec)
    => issued[1].token.claims.exp * TicksPerSec > issued[1].at

\* login issued a token under the default ACCESS_TOKEN_EXPIRE_MINUTES, some
\* time after the start
C7_Witness ==
    /\ resp.op = "login" /\ resp.status = 200
    /\ minutes = EnvDefaultExpireMinutes
    /\ issued[1].token = resp.access_token[1]
    /\ issued[1].at > 0
    /\ issued[1].token.claims.exp * TicksPerSec > issued[1].at

\* the ttl a caller supplied; DefaultExpireMinutes when none was supplied
SuppliedTtl(expires_delta) ==
    IF expires_delta = <<>> THEN Timedelta(DefaultExpireMinutes)
    ELSE expires_delta[1]

\* C8: decoding an issued token at any time before its expiry yields the
\* subject it was issued for and an expiry of issuance time + ttl (in whole
\* seconds), the ttl being the default only when none was supplied.
C8_RoundTrip ==
    issued # <<>> =>
        \A t \in issued[1].at..Horizon :
            t < issued[1].token.claims.exp * TicksPerSec =>
                LET d == jwt_decode(issued[1].token, SECRET_KEY, t)
                IN  /\ d.ok
                    /\ d.payload.sub = issued[1].sub
                    /\ d.payload.exp =
                         Timegm(issued[1].at + SuppliedTtl(issued[1].expires_delta))

C10_ResolvesOnlyStoredSubject ==
    resp.op \in Getters =>
        /\ resp.status = 200 =>
              /\ SignedBySecret(resp.token)
              /\ (resp.token.claims.exp + 1) * TicksPerSec > resp.at
              /\ resp.token.claims.sub # None
              /\ resp.user \in Records(users)
              /\ resp.user.username = resp.token.claims.sub
        /\ (\/ resp.token.claims.sub = None
            \/ \A u \in Records(users) : u.username # resp.token.claims.sub)
           => resp.status = 401
        /\ resp.status # 200 =>
              /\ resp.status = 401
              /\ resp.user = NoUser
              /\ resp.detail = "Could not validate credentials"

\* a token signed under SECRET_KEY, not expired, naming no stored user, was
\* rejected by main.py's handler
C10_Witness ==
    /\ resp.op = "main_get_current_user" /\ resp.status = 401
    /\ resp.token = issued[1].token
    /\ issued[1].sub = "bob"
    /\ issued[1].expires_delta = <<>>

\* one registered user, alice; bob is not stored
InitTok ==
    /\ users = create_user(<<>>,
                 [id |-> 0, username |-> "alice", email |-> "a@x.org",
                  hashed_password |-> get_password_hash("pw1", "s1"),
                  is_verified |-> 0, verification_token |-> "tokA"])
    /\ now = 0
    /\ minutes \in EnvMinutes
    /\ issued = <<>>
    /\ resp = [op |-> "none", status |-> 0]
    /\ InitApp

NextTok ==
    \/ Tick
    \/ IssueToken
    \/ LoginTok
    \/ AuthGetCurrentUser
    \/ MainGetCurrentUser

SpecTok == InitTok /\ [][NextTok]_vars

\* ------------------------------------------ the review specification
\* how many restaurants and reviews the stores take
MaxRestaurants == 1
MaxReviews == 1

\* the upload limit of /reviews/, in bytes
MaxImageBytes == 5 * 1024 * 1024

RestaurantNames == {"cafe"}
Ratings == {0, 1, 5, 6}
RestaurantIds == {1, 2}

\* no upload, and uploads that are accepted, too large, not an image, or
\* that the disk refuses
NoImage ==
    [filename |-> "", size |-> 0, content_type |-> <<>>, saves |-> TRUE]
Images ==
    {NoImage,
     [filename |-> "a.png", size |-> MaxImageBytes,
      content_type |-> <<"image", "png">>, saves |-> TRUE],
     [filename |-> "a.png", size |-> MaxImageBytes + 1,
      content_type |-> <<"image", "png">>, saves |-> TRUE],
     [filename |-> "a.txt", size |-> 1,
      content_type |-> <<"text", "plain">>, saves |-> TRUE],
     [filename |-> "a.png", size |-> 1,
      content_type |-> <<"image", "png">>, saves |-> FALSE]}

\* the bearer token login hands to a stored user under the default
\* ACCESS_TOKEN_EXPIRE_MINUTES
BearerFor(username) ==
    create_access_token(username, <<Timedelta(EnvDefaultExpireMinutes)>>, 0)

\* the same claims signed with a key that is not SECRET_KEY
ForgedFor(username) ==
    LET t == BearerFor(username)
    IN  [t EXCEPT !.sig.bytes = Hmac(t.claims, AttackerKey)]

Bearers == {BearerFor(u) : u \in Usernames} \cup {ForgedFor("alice")}

\* main.py get_current_user as the dependency of a route: the user record,
\* NoUser when it raises its 401
Depends_get_current_user(us, token, utcnow) ==
    LET d == decode_token(token, utcnow)
    IN  IF ~d.ok THEN NoUser
        ELSE IF d.payload.sub = None THEN NoUser
        ELSE get_user_by_username(us, d.payload.sub)

\* faulty variant: the is_verified flag is not looked at
get_verified_user_unchecked(current_user) == current_user

\* main.py get_verified_user: the user record, NoUser when it raises its 403
get_verified_user(current_user) ==
    IF current_user.is_verified = 0 THEN NoUser ELSE current_user

\* the response of a restaurant or review route; the request is kept with it
RouteResponse(op, status, detail, req) ==
    [op |-> op, status |-> status, detail |-> detail, req |-> req]

\* POST /restaurants/
main_create_restaurant(token, name) ==
    /\ LET current_user == Depends_get_current_user(users, token, now)
           req == [token |-> token, name |-> name]
       IN  IF current_user = NoUser
           THEN /\ resp' = RouteResponse("create_restaurant", 401,
                               "Could not validate credentials", req)
                /\ UNCHANGED restaurants
           ELSE /\ restaurants' =
                       create_restaurant(restaurants, [id |-> 0, name |-> name])
                /\ resp' = RouteResponse("create_restaurant", 200, "ok", req)
    /\ UNCHANGED <<users, now, minutes, issued, reviews, admins, ADMINS, reqs>>

\* POST /reviews/
main_create_review(token, text, rating, restaurant_id, image) ==
    /\ LET current_user == Depends_get_current_user(users, token, now)
           req == [token |-> token, rating |-> rating,
                   restaurant_id |-> restaurant_id,
                   upload |-> image.filename # ""]
           Refuse(status, detail) ==
               /\ resp' = RouteResponse("create_review", status, detail, req)
               /\ UNCHANGED reviews
       IN  IF current_user = NoUser
           THEN Refuse(401, "Could not validate credentials")
           ELSE IF get_verified_user(current_user) = NoUser
           THEN Refuse(403, "Email not verified")
           ELSE IF rating < 1 \/ rating > 5
           THEN Refuse(400, "Rating must be between 1 and 5")
           ELSE IF get_restaurant_by_id(restaurants, restaurant_id) = NoRestaurant
           THEN Refuse(404, "Restaurant not found")
           ELSE IF image.filename # "" /\ image.size > MaxImageBytes
           THEN Refuse(400, "Image size must be less than 5MB")
           ELSE IF image.filename # "" /\ Head(image.content_type) # "image"
           THEN Refuse(400, "File must be an image")
           ELSE IF image.filename # "" /\ ~image.saves
           THEN Refuse(500, "Failed to save image")
           ELSE LET image_url == IF image.filename # ""
                                 THEN "/uploads/uuid.png" ELSE None
                IN  /\ reviews' = create_review(reviews,
                           [id |-> 0, text |-> text, rating |-> rating,
                            restaurant_id |-> restaurant_id,
                            user_id |-> current_user.id,
                            image_url |-> image_url, created_at |-> 0], now)
                    /\ resp' = RouteResponse("create_review", 200,
                                   "Review created successfully", req)
    /\ UNCHANGED <<users, now, minutes, issued, restaurants, admins, ADMINS, reqs>>

CreateRestaurant ==
    \E token \in Bearers, name \in RestaurantNames :
        /\ main_create_restaurant(token, name)
        /\ Len(restaurants') <= MaxRestaurants

CreateReview ==
    \E token \in Bearers, rating \in Ratings, restaurant_id \in RestaurantIds,
       image \in Images :
        /\ main_create_review(token, "good", rating, restaurant_id, image)
        /\ Len(reviews') <= MaxReviews

\* C13: every stored review names a verified user and a stored restaurant
\* and has a rating from 1 to 5; reviews are only appended, one at a time, and
\* only for a caller whose flag was set before the request; a /reviews/
\* request by an unverified caller, with a rating outside 1..5 or for a
\* restaurant that is not stored leaves the review store as it was.
C13_ReviewsMeetPreconditions ==
    [][/\ \A k \in DOMAIN reviews' :
            /\ \E u \in Records(users') :
                   u.id = reviews'[k].user_id /\ u.is_verified = 1
            /\ reviews'[k].rating \in 1..5
            /\ \E r \in Records(restaurants') : r.id = reviews'[k].restaurant_id
       /\ reviews' # reviews =>
            /\ resp'.op = "create_review" /\ resp'.status = 200
            /\ Len(reviews') = Len(reviews) + 1
            /\ SubSeq(reviews', 1, Len(reviews)) = reviews
            /\ \E u \in Records(users) :
                   /\ u.id = reviews'[Len(reviews')].user_id
                   /\ u.is_verified = 1
                   /\ u.username = resp'.req.token.claims.sub
            /\ reviews'[Len(reviews')].rating = resp'.req.rating
            /\ reviews'[Len(reviews')].restaurant_id = resp'.req.restaurant_id
       /\ (/\ resp'.op = "create_review"
           /\ \/ \A u \in Records(users) :
                     u.username = resp'.req.token.claims.sub => u.is_verified = 0
              \/ resp'.req.rating \notin 1..5
              \/ \A r \in Records(restaurants) : r.id # resp'.req.restaurant_id)
          => (resp'.status # 200 /\ reviews' = reviews)]_vars

\* with a review of bob's stored, alice, who holds a valid bearer token and
\* has not verified her email, was refused a review that was otherwise in
\* order
C13_Witness ==
    /\ Len(reviews) = 1
    /\ resp.op = "create_review" /\ resp.status = 403
    /\ resp.req.token = BearerFor("alice")
    /\ resp.req.rating = 5
    /\ resp.req.restaurant_id = 1
    /\ ~resp.req.upload

\* alice and bob are registered and neither has verified
InitRev ==
    /\ users = create_user(
                 create_user(<<>>,
                   [id |-> 0, username |-> "alice", email |-> "a@x.org",
                    hashed_password |-> get_password_hash("pw1", "s1"),
                    is_verified |-> 0, verification_token |-> "tokA"]),
                 [id |-> 0, username |-> "bob", email |-> "b@x.org",
                  hashed_password |-> get_password_hash("pw2", "s2"),
                  is_verified |-> 0, verification_token |-> "tokB"])
    /\ now = 0
    /\ minutes = EnvDefaultExpireMinutes
    /\ issued = <<>>
    /\ resp = [op |-> "none", status |-> 0]
    /\ InitApp

NextRev ==
    \/ VerifyEmail
    \/ CreateRestaurant
    \/ CreateReview

SpecRev == InitRev /\ [][NextRev]_vars

\* ------------------------------------------- the admin specification
\* what ADMINS may hold: nothing, one email, two emails around a blank entry
EnvAdminLists == {<<>>, <<"a@x.org">>, <<"a@x.org", "", "b@x.org">>}

\* the emails an admin request may name: those of stored users, the default
\* admin's, one that belongs to nobody
AdminEmailInputs == {"a@x.org", "b@x.org", "c@x.org", DefaultAdminEmail, "z@x.org"}

\* the callers of the admin routes: alice, bob, carol, and a forged token
AdminBearers == Bearers \cup {BearerFor("carol")}

\* the response of an admin route; caller is the email of the authenticated
\* user (None for the 401), email the one the request names
AdminResponse(op, status, detail, caller, email) ==
    [op |-> op, status |-> status, detail |-> detail, caller |-> caller,
     email |-> email]

Unauthenticated(op, email) ==
    AdminResponse(op, 401, "Could not validate credentials", None, email)

Forbidden(op, caller, email) ==
    AdminResponse(op, 403, "You do not have admin access", caller, email)

\* GET /admin/check-access
check_admin_access(token) ==
    /\ LET current_user == Depends_get_current_user(users, token, now)
       IN  IF current_user = NoUser
           THEN /\ resp' = Unauthenticated("check_access", None)
                /\ UNCHANGED admins
           ELSE /\ admins' = init_first_admin(admins, ADMINS)
                /\ resp' = IF ~is_admin(admins', current_user.email)
                           THEN Forbidden("check_access", current_user.email, None)
                           ELSE AdminResponse("check_access", 200, "admin",
                                              current_user.email, None)
    /\ UNCHANGED <<users, now, minutes, issued, restaurants, reviews, ADMINS, reqs>>

\* the three read-only admin routes: the guard, then a read of the stores
AdminRead(op, token) ==
    /\ LET current_user == Depends_get_current_user(users, token, now)
       IN  resp' = IF current_user = NoUser THEN Unauthenticated(op, None)
                   ELSE IF ~is_admin(admins, current_user.email)
                   THEN Forbidden(op, current_user.email, None)
                   ELSE AdminResponse(op, 200, "list", current_user.email, None)
    /\ UNCHANGED <<users, now, minutes, issued, restaurants, reviews, admins,
                   ADMINS, reqs>>

\* GET /admin/users
get_admin_users(token) == AdminRead("admin_users", token)

\* GET /admin/reviews
get_admin_reviews(token) == AdminRead("admin_reviews", token)

\* GET /admin/admins
get_admin_list(token) == AdminRead("admin_admins", token)

\* faulty variant: the caller's admin access is not checked
add_admin_access_unguarded(token, email) ==
    /\ LET current_user == Depends_get_current_user(users, token, now)
       IN  IF current_user = NoUser
           THEN /\ resp' = Unauthenticated("add_admin", email)
                /\ UNCHANGED admins
           ELSE IF get_user_by_email(users, email) = NoUser
           THEN /\ resp' = AdminResponse("add_admin", 404, "User not found",
                                         current_user.email, email)
                /\ UNCHANGED admins
           ELSE LET r == add_admin(admins, email)
                IN  /\ admins' = r.admins
                    /\ resp' = AdminResponse("add_admin", 200,
                                   IF r.success
                                   THEN "Admin access granted successfully"
                                   ELSE "User already has admin access",
                                   current_user.email, email)
    /\ UNCHANGED <<users, now, minutes, issued, restaurants, reviews, ADMINS, reqs>>

\* POST /admin/add-admin
add_admin_access(token, email) ==
    /\ LET current_user == Depends_get_current_user(users, token, now)
       IN  IF current_user = NoUser
           THEN /\ resp' = Unauthenticated("add_admin", email)
                /\ UNCHANGED admins
           ELSE IF ~is_admin(admins, current_user.email)
           THEN /\ resp' = Forbidden("add_admin", current_user.email, email)
                /\ UNCHANGED admins
           ELSE IF get_user_by_email(users, email) = NoUser
           THEN /\ resp' = AdminResponse("add_admin", 404, "User not found",
                                         current_user.email, email)
                /\ UNCHANGED admins
           ELSE LET r == add_admin(admins, email)
                IN  /\ admins' = r.admins
                    /\ resp' = AdminResponse("add_admin", 200,
                                   IF r.success
                                   THEN "Admin access granted successfully"
                                   ELSE "User already has admin access",
                                   current_user.email, email)
    /\ UNCHANGED <<users, now, minutes, issued, restaurants, reviews, ADMINS, reqs>>

\* faulty variant: a caller may remove the caller's own email
remove_admin_access_own(token, email) ==
    /\ LET current_user == Depends_get_current_user(users, token, now)
       IN  IF current_user = NoUser
           THEN /\ resp' = Unauthenticated("remove_admin", email)
                /\ UNCHANGED admins
           ELSE IF ~is_admin(admins, current_user.email)
           THEN /\ resp' = Forbidden("remove_admin", current_user.email, email)
                /\ UNCHANGED admins
           ELSE LET r == remove_admin(admins, email)
                IN  /\ admins' = r.admins
                    /\ resp' = IF ~r.success
                               THEN AdminResponse("remove_admin", 404,
                                        "User does not have admin access",
                                        current_user.email, email)
                               ELSE AdminResponse("remove_admin", 200,
                                        "Admin access removed successfully",
                                        current_user.email, email)
    /\ UNCHANGED <<users, now, minutes, issued, restaurants, reviews, ADMINS, reqs>>

\* POST /admin/remove-admin
remove_admin_access(token, email) ==
    /\ LET current_user == Depends_get_current_user(users, token, now)
       IN  IF current_user = NoUser
           THEN /\ resp' = Unauthenticated("remove_admin", email)
                /\ UNCHANGED admins
           ELSE IF ~is_admin(admins, current_user.email)
           THEN /\ resp' = Forbidden("remove_admin", current_user.email, email)
                /\ UNCHANGED admins
           ELSE IF email = current_user.email
           THEN /\ resp' = AdminResponse("remove_admin", 400,
                               "You cannot remove your own admin access",
                               current_user.email, email)
                /\ UNCHANGED admins
           ELSE LET r == remove_admin(admins, email)
                IN  /\ admins' = r.admins
                    /\ resp' = IF ~r.success
                               THEN AdminResponse("remove_admin", 404,
                                        "User does not have admin access",
                                        current_user.email, email)
                               ELSE AdminResponse("remove_admin", 200,
                                        "Admin access removed successfully",
                                        current_user.email, email)
    /\ UNCHANGED <<users, now, minutes, issued, restaurants, reviews, ADMINS, reqs>>

CheckAdminAccess == \E token \in AdminBearers : check_admin_access(token)

GetAdminUsers == \E token \in AdminBearers : get_admin_users(token)

GetAdminReviews == \E token \in AdminBearers : get_admin_reviews(token)

GetAdminList == \E token \in AdminBearers : get_admin_list(token)

AddAdminAccess ==
    \E token \in AdminBearers, email \in AdminEmailInputs :
        add_admin_access(token, email)

RemoveAdminAccess ==
    \E token \in AdminBearers, email \in AdminEmailInputs :
        remove_admin_access(token, email)

\* alice, bob and carol are registered; admins.json is what init_first_admin
\* made of an empty file and of ADMINS when local_storage was imported
InitAdm ==
    /\ users = create_user(create_user(create_user(<<>>,
                   [id |-> 0, username |-> "alice", email |-> "a@x.org",
                    hashed_password |-> get_password_hash("pw1", "s1"),
                    is_verified |-> 1, verification_token |-> None]),
                   [id |-> 0, username |-> "bob", email |-> "b@x.org",
                    hashed_password |-> get_password_hash("pw2", "s2"),
                    is_verified |-> 0, verification_token |-> "tokB"]),
                   [id |-> 0, username |-> "carol", email |-> "c@x.org",
                    hashed_password |-> get_password_hash("pw1", "s2"),
                    is_verified |-> 0, verification_token |-> "tokA"])
    /\ now = 0
    /\ minutes = EnvDefaultExpireMinutes
    /\ issued = <<>>
    /\ resp = [op |-> "none", status |-> 0]
    /\ restaurants = <<>>
    /\ reviews = <<>>
    /\ ADMINS \in EnvAdminLists
    /\ admins = init_first_admin(<<>>, ADMINS)
    /\ reqs = <<>>

NextAdm ==
    \/ CheckAdminAccess
    \/ GetAdminUsers
    \/ GetAdminReviews
    \/ GetAdminList
    \/ AddAdminAccess
    \/ RemoveAdminAccess

SpecAdm == InitAdm /\ [][NextAdm]_vars

\* ------------------------------------------------- claims on the admin list
\* the emails listed in ADMINS, blank entries left out
EnvEmails == {ADMINS[i] : i \in DOMAIN ADMINS} \ {""}

\* the emails of the admin list
AdminEmails(adm) == {adm[i].email : i \in DOMAIN adm}

AdminOps ==
    {"check_access", "admin_users", "admin_reviews", "admin_admins",
     "add_admin", "remove_admin"}

\* the step is an admin request of an authenticated user whose email was not
\* in the admin list when the request arrived
NonAdminRequest ==
    /\ resp'.op \in AdminOps
    /\ resp'.caller # None
    /\ ~is_admin(admins, resp'.caller)

\* C14: the admin list is never empty.
C14_AdminsNonEmpty == admins # <<>>

\* an admin removed the other admin, and one admin is left
C14_Witness ==
    /\ resp.op = "remove_admin" /\ resp.status = 200
    /\ Len(admins) = 1
    /\ admins[1].email = resp.caller

\* C15: an admin request of an authenticated user who is not an admin is
\* answered 403 and changes neither the admin list nor the other stores.
C15_NonAdminForbidden ==
    [][NonAdminRequest =>
          /\ resp'.status = 403
          /\ UNCHANGED <<admins, users, restaurants, reviews>>]_vars

\* C15 amended: so it is at users, reviews, admins, add-admin and
\* remove-admin; check-access first appends to the admin list every email of
\* ADMINS that is missing from it, and answers 403 unless the caller's email is
\* one of those, 200 when it is; no store other than the admin list changes.
C15_NonAdminForbiddenButReload ==
    [][NonAdminRequest =>
          /\ UNCHANGED <<users, restaurants, reviews>>
          /\ resp'.op # "check_access" =>
                (resp'.status = 403 /\ admins' = admins)
          /\ resp'.op = "check_access" =>
                /\ AdminEmails(admins') = AdminEmails(admins) \cup EnvEmails
                /\ SubSeq(admins', 1, Len(admins)) = admins
                /\ resp'.status = IF resp'.caller \in EnvEmails THEN 200 ELSE 403]_vars

\* carol, who is no admin and not listed in ADMINS, asked for check-access
\* while an email of ADMINS was missing from the list: she got 403 and the
\* email is back
C15_Witness ==
    /\ resp.op = "check_access" /\ resp.status = 403
    /\ resp.caller = "c@x.org"
    /\ ADMINS = <<"a@x.org">>
    /\ admins = <<[email |-> "b@x.org"], [email |-> "a@x.org"]>>

\* C16: an email that is not in the admin list gets into it only by a
\* granted add-admin request for that email, so a removed email stays out
\* until then.
C16_RemovalDurable ==
    [][\A e \in AdminEmailInputs :
          (~is_admin(admins, e) /\ is_admin(admins', e)) =>
              /\ resp'.op = "add_admin" /\ resp'.email = e
              /\ resp'.detail = "Admin access granted successfully"]_vars

\* C16 amended: a granted remove-admin request takes the email out of the
\* list; an email that is not in the list gets into it by a granted add-admin
\* request for it or, if ADMINS lists it, by the next check-access request of
\* an authenticated user, which puts every missing email of ADMINS back.
C16_RemovalDurableUntilReload ==
    [][/\ (resp'.op = "remove_admin" /\ resp'.status = 200) =>
              ~is_admin(admins', resp'.email)
       /\ (resp'.op = "check_access" /\ resp'.caller # None) =>
              EnvEmails \subseteq AdminEmails(admins')
       /\ \A e \in AdminEmailInputs :
              (~is_admin(admins, e) /\ is_admin(admins', e)) =>
                  \/ /\ resp'.op = "add_admin" /\ resp'.email = e
                     /\ resp'.detail = "Admin access granted successfully"
                  \/ /\ resp'.op = "check_access" /\ resp'.caller # None
                     /\ e \in EnvEmails]_vars

\* bob's admin access, which ADMINS does not list, was removed and a later
\* check-access request of bob was answered 403: the removal lasted
C16_Witness ==
    /\ ADMINS = <<"a@x.org">>
    /\ resp.op = "check_access" /\ resp.status = 403
    /\ resp.caller = "b@x.org"
    /\ admins = <<[email |-> "a@x.org"]>>

\* ------------------------------- overlapping registrations: the specification
\* Two register_user calls run in two worker processes over the one
\* users.json.  Each file access of a call is a step of its own; users is
\* what read_json returns for the file at that moment, which is [] while a
\* writer has the file open or after two writers have left bytes of both
\* in it (both fail to parse).
Requests == {"r1", "r2"}

\* the form fields of the two calls: usernames and emails differ
FormOf(r) ==
    IF r = "r1" THEN [username |-> "alice", email |-> "a@x.org",
                      password |-> "pw1", salt |-> "s1",
                      verification_token |-> "tokA"]
    ELSE [username |-> "bob", email |-> "b@x.org", password |-> "pw2",
          salt |-> "s2", verification_token |-> "tokB"]

\* users.json before the two calls: empty, or holding carol
PriorStores ==
    {<<>>,
     create_user(<<>>,
        [id |-> 0, username |-> "carol", email |-> "c@x.org",
         hashed_password |-> get_password_hash("pw1", "s2"),
         is_verified |-> 1, verification_token |-> None])}

\* a call's locals on arrival: user_data is built before create_user is called
Arrived(r) ==
    [pc |-> "check_username",
     user_data |-> [id |-> 0, username |-> FormOf(r).username,
                    email |-> FormOf(r).email,
                    hashed_password |->
                        get_password_hash(FormOf(r).password, FormOf(r).salt),
                    is_verified |-> 0,
                    verification_token |-> FormOf(r).verification_token],
     users |-> <<>>, overwritten |-> FALSE, status |-> 0]

\* register_user: the lookup by username, a read of users.json
reg_check_username(r) ==
    /\ reqs[r].pc = "check_username"
    /\ IF get_user_by_username(users, reqs[r].user_data.username) # NoUser
       THEN reqs' = [reqs EXCEPT ![r].pc = "done", ![r].status = 400]
       ELSE reqs' = [reqs EXCEPT ![r].pc = "check_email"]
    /\ UNCHANGED <<users, now, minutes, issued, resp, restaurants, reviews,
                   admins, ADMINS>>

\* register_user: the lookup by email, a second read of users.json
reg_check_email(r) ==
    /\ reqs[r].pc = "check_email"
    /\ IF get_user_by_email(users, reqs[r].user_data.email) # NoUser
       THEN reqs' = [reqs EXCEPT ![r].pc = "done", ![r].status = 400]
       ELSE reqs' = [reqs EXCEPT ![r].pc = "read"]
    /\ UNCHANGED <<users, now, minutes, issued, resp, restaurants, reviews,
                   admins, ADMINS>>

\* create_user: read_json, new_id, the append to the list in memory
reg_read(r) ==
    /\ reqs[r].pc = "read"
    /\ LET written == create_user(users, reqs[r].user_data)
       IN  reqs' = [reqs EXCEPT ![r].pc = "open",
                                ![r].users = written,
                                ![r].user_data = written[Len(written)]]
    /\ UNCHANGED <<users, now, minutes, issued, resp, restaurants, reviews,
                   admins, ADMINS>>

\* write_json: open(file_path, 'w') truncates the file
reg_open(r) ==
    /\ reqs[r].pc = "open"
    /\ users' = <<>>
    /\ reqs' = [reqs EXCEPT ![r].pc = "dump"]
    /\ UNCHANGED <<now, minutes, issued, resp, restaurants, reviews, admins,
                   ADMINS>>

\* faulty variant: the record is appended to what the file holds at that time
reg_dump_appending(r) ==
    /\ reqs[r].pc = "dump"
    /\ users' = Append(users, reqs[r].user_data)
    /\ reqs' = [q \in Requests |->
                  IF q = r THEN [reqs[q] EXCEPT !.pc = "mail"]
                  ELSE [reqs[q] EXCEPT !.overwritten = (reqs[q].pc = "dump")]]
    /\ UNCHANGED <<now, minutes, issued, resp, restaurants, reviews, admins,
                   ADMINS>>

\* write_json: json.dump and the close, which writes the list from offset 0.
\* If the other call wrote its bytes after this call's open, they lie under
\* the bytes written now: the file holds this call's list or, when that is
\* the shorter one, its list followed by the other's tail, which does not parse.
reg_dump(r) ==
    /\ reqs[r].pc = "dump"
    /\ \/ users' = reqs[r].users
       \/ /\ reqs[r].overwritten
          /\ users' = <<>>
    /\ reqs' = [q \in Requests |->
                  IF q = r THEN [reqs[q] EXCEPT !.pc = "mail"]
                  ELSE [reqs[q] EXCEPT !.overwritten = (reqs[q].pc = "dump")]]
    /\ UNCHANGED <<now, minutes, issued, resp, restaurants, reviews, admins,
                   ADMINS>>

\* register_user: the verification mail and the response
reg_mail(r, mail_ok) ==
    /\ reqs[r].pc = "mail"
    /\ reqs' = [reqs EXCEPT ![r].pc = "done",
                            ![r].status = IF mail_ok THEN 200 ELSE 500]
    /\ resp' = IF mail_ok
               THEN [op |-> "register", status |-> 200,
                     detail |-> "User registered successfully"]
               ELSE [op |-> "register", status |-> 500,
                     detail |-> "Internal Server Error"]
    /\ UNCHANGED <<users, now, minutes, issued, restaurants, reviews, admins,
                   ADMINS>>

RegCheckUsername == \E r \in Requests : reg_check_username(r)

RegCheckEmail == \E r \in Requests : reg_check_email(r)

RegRead == \E r \in Requests : reg_read(r)

RegOpen == \E r \in Requests : reg_open(r)

RegDump == \E r \in Requests : reg_dump(r)

RegMail == \E r \in Requests, mail_ok \in BOOLEAN : reg_mail(r, mail_ok)

InitConc ==
    /\ users \in PriorStores
    /\ now = 0
    /\ minutes = EnvDefaultExpireMinutes
    /\ issued = <<>>
    /\ resp = [op |-> "none", status |-> 0]
    /\ restaurants = <<>>
    /\ reviews = <<>>
    /\ ADMINS = <<>>
    /\ admins = init_first_admin(<<>>, ADMINS)
    /\ reqs = [r \in Requests |-> Arrived(r)]

NextConc ==
    \/ RegCheckUsername
    \/ RegCheckEmail
    \/ RegRead
    \/ RegOpen
    \/ RegDump
    \/ RegMail

SpecConc == InitConc /\ [][NextConc]_vars

\* --------------------------------------- claims on overlapping registrations
AllDone == \A r \in Requests : reqs[r].pc = "done"

\* the record of call r is in the store
Stored(r) == reqs[r].user_data \in Records(users)

\* one call read users.json after the other had written its record to it
Serial ==
    \E r, q \in Requests :
        r # q /\ reqs[r].user_data \in Records(reqs[q].users)

\* C17: when both calls have finished, both records are in the store and
\* their ids differ.
C17_BothStoredDistinctIds ==
    AllDone =>
        /\ \A r \in Requests : Stored(r)
        /\ reqs["r1"].user_data.id # reqs["r2"].user_data.id

\* C17 amended: when both calls have finished, both records are in the store
\* exactly when one call read users.json after the other had written; then
\* everything read is still stored and the ids differ.  Otherwise at most one
\* of the two records is stored.  No two stored records share an id.
C17_BothStoredOnlyWhenSerial ==
    AllDone =>
        /\ (\A r \in Requests : Stored(r)) <=> Serial
        /\ Serial =>
              /\ reqs["r1"].user_data.id # reqs["r2"].user_data.id
              /\ \A r \in Requests : Records(reqs[r].users) \subseteq Records(users)
        /\ ~Serial => \E r \in Requests : ~Stored(r)
        /\ \A i, j \in DOMAIN users : i # j => users[i].id # users[j].id

\* both calls read the same list, were given the same id and answered 200,
\* and only bob's record is stored
C17_Witness ==
    /\ AllDone
    /\ \A r \in Requests : reqs[r].status = 200
    /\ reqs["r1"].user_data.id = reqs["r2"].user_data.id
    /\ ~Stored("r1") /\ Stored("r2")
    /\ Len(users) = 2
====
